---- MODULE Spec2Model ----
(***************************************************************************)
(* Dependency-graph engine of the package visualizer                       *)
(* (gitmanagerdemo5stage.py): run_visualizer drives                        *)
(* build_dependency_graph_bfs and get_loading_order.                       *)
(*                                                                         *)
(* A package name or dependency specifier is a Python str, modelled as a   *)
(* sequence of one-character strings, so that the substring test of the    *)
(* filter and the f-string of the back-edge report are computed character  *)
(* by character.                                                           *)
(***************************************************************************)
EXTENDS Integers, Sequences, FiniteSets, TLC

VARIABLES
    repository_mode,   \* argument of run_visualizer: "remote" or "local"
    local_repository,  \* what load_local_repository(repository_url) returns
    file_status,       \* whether load_local_repository found the file
    package_name,      \* argument of run_visualizer
    filter_substring,  \* argument of run_visualizer
    pc,                \* position of the run
    outcome,           \* message branch taken by run_visualizer
    errors,            \* error messages printed so far
    repository_data,   \* run_visualizer local
    all_packages,      \* build_dependency_graph_bfs locals, then nodes
    all_edges,         \*   then edges
    queue,
    visited,
    cycles_detected,   \*   then cycles
    current_package,
    direct_deps,
    dep_idx,           \* position of the for loop in direct_deps
    in_degree,         \* get_loading_order locals
    adj,
    sort_queue,
    loading_order,
    u,
    adj_idx,           \* position of the for loop in adj[u]
    has_cycle,
    final_order,       \* final_order_with_package printed by run_visualizer
    enq_log,           \* history: packages put on queue, in order
    deq_log,           \* history: packages popped from queue, in order
    edge_back          \* history: per edge, was the target visited already

inputs == <<repository_mode, local_repository, file_status, package_name,
            filter_substring>>
bfs_vars == <<all_packages, all_edges, queue, visited, cycles_detected,
              current_package, direct_deps, dep_idx>>
sort_vars == <<in_degree, adj, sort_queue, loading_order, u, adj_idx, has_cycle>>
hist_vars == <<enq_log, deq_log, edge_back>>
vars == <<inputs, pc, outcome, errors, repository_data, bfs_vars, sort_vars,
          final_order, hist_vars>>

-----------------------------------------------------------------------------
(* Bounds of the explored inputs *)

MaxDeps == 2        \* longest dependency list of one local package
MaxTotalDeps == 3   \* specifiers in a local repository, all lists together

MaxSortEdges == 2   \* longest edge list handed directly to get_loading_order

-----------------------------------------------------------------------------
(* Strings *)

A == <<"A">>
B == <<"B">>
C == <<"C">>
BGt1 == <<"B", ">", "1">>     \* the specifier "B>1"

busybox == <<"b","u","s","y","b","o","x">>
python3 == <<"p","y","t","h","o","n","3">>
openssl == <<"o","p","e","n","s","s","l">>
musl == <<"m","u","s","l">>
libcrypto == <<"l","i","b","c","r","y","p","t","o","1",".","1">>
libssl == <<"l","i","b","s","s","l","1",".","1">>
zlib == <<"z","l","i","b">>
libffi == <<"l","i","b","f","f","i">>
baselayout == <<"a","l","p","i","n","e","-","b","a","s","e","l","a","y","o","u","t">>

Range(s) == {s[i] : i \in 1..Len(s)}

\* Python: sub in s
IsSubstring(sub, s) ==
    \E i \in 0..(Len(s) - Len(sub)) : SubSeq(s, i + 1, i + Len(sub)) = sub

\* variant: the filter compared for equality instead of containment
IsFiltered_Equal(flt, name) == flt # <<>> /\ flt = name

\* Python: filter_substring and filter_substring in name
IsFiltered(flt, name) == flt # <<>> /\ IsSubstring(flt, name)

\* Python: repository_data.get(name, [])
Get(repo, name) == IF name \in DOMAIN repo THEN repo[name] ELSE <<>>

\* f"Back edge/cycle detected: {current_package} -> {dep}"
BackEdgeMsg(cur, dep) ==
    <<"Back edge/cycle detected: ">> \o cur \o <<" ", "-", ">", " ">> \o dep

\* f"Start package '{start_package}' filtered."
StartFilteredMsg(start) ==
    <<"Start package '">> \o start \o <<"' filtered.">>

MOCK_REPOSITORY ==
    [p \in {busybox, python3, openssl, musl, libcrypto, zlib, libffi, baselayout} |->
        CASE p = busybox -> <<musl, baselayout, libcrypto>>
          [] p = python3 -> <<busybox, libssl, zlib, libffi>>
          [] p = openssl -> <<libcrypto, musl>>
          [] OTHER -> <<>>]

-----------------------------------------------------------------------------
(* Inputs *)

Keys == {A, B, C}
Specifiers == {A, B, C, BGt1}
DepLists == UNION {[1..n -> Specifiers] : n \in 0..MaxDeps}

WithKey(r, k, d) == [x \in (DOMAIN r) \cup {k} |-> IF x = k THEN d ELSE r[x]]

RECURSIVE ReposOver(_, _)
ReposOver(K, budget) ==
    IF K = {} THEN {<<>>}
    ELSE LET k == CHOOSE x \in K : TRUE
         IN  UNION {{WithKey(r, k, d) : r \in ReposOver(K \ {k}, budget - Len(d))} :
                        d \in {e \in DepLists : Len(e) <= budget}}

\* the mappings load_local_repository can return; the empty one also stands
\* for a missing or unreadable file
LocalRepositories == UNION {ReposOver(K, MaxTotalDeps) : K \in SUBSET Keys}

LocalStarts == {A, B}
LocalFilters == {<<>>, B, C}
RemoteStarts == {python3, openssl, libssl}
RemoteFilters == {<<>>, <<"l","i","b">>, <<"s","s","l">>}

-----------------------------------------------------------------------------

Init ==
    /\ \/ /\ repository_mode = "local"
          /\ local_repository \in LocalRepositories
          /\ file_status \in IF local_repository = <<>> THEN {"read", "not_found"}
                             ELSE {"read"}
          /\ package_name \in LocalStarts
          /\ filter_substring \in LocalFilters
       \/ /\ repository_mode = "remote"
          /\ local_repository = <<>>
          /\ file_status = "unused"
          /\ package_name \in RemoteStarts
          /\ filter_substring \in RemoteFilters
    /\ pc = "run"
    /\ outcome = "none"
    /\ errors = <<>>
    /\ repository_data = <<>>
    /\ all_packages = {}
    /\ all_edges = <<>>
    /\ queue = <<>>
    /\ visited = {}
    /\ cycles_detected = <<>>
    /\ current_package = <<>>
    /\ direct_deps = <<>>
    /\ dep_idx = 0
    /\ in_degree = <<>>
    /\ adj = <<>>
    /\ sort_queue = <<>>
    /\ loading_order = <<>>
    /\ u = <<>>
    /\ adj_idx = 0
    /\ has_cycle = FALSE
    /\ final_order = <<>>
    /\ enq_log = <<>>
    /\ deq_log = <<>>
    /\ edge_back = <<>>

\* the error load_local_repository prints: only a file that cannot be opened
\* is reported, a file without package lines is loaded silently as {}
LoadErrors(mode, status) ==
    IF mode # "remote" /\ status = "not_found" THEN <<"file_not_found">> ELSE <<>>

\* run_visualizer up to the call of build_dependency_graph_bfs
RunVisualizer ==
    /\ pc = "run"
    /\ LET data == IF repository_mode = "remote" THEN MOCK_REPOSITORY
                   ELSE local_repository
           loaded == LoadErrors(repository_mode, file_status)
       IN  /\ repository_data' = data
           /\ IF repository_mode # "remote" /\ DOMAIN data = {}
              THEN pc' = "done" /\ outcome' = "empty_repository"
                   /\ errors' = loaded
              ELSE IF package_name \notin DOMAIN data
              THEN pc' = "done" /\ outcome' = "unknown_package"
                   /\ errors' = Append(loaded, "unknown_package")
              ELSE pc' = "bfs_call" /\ outcome' = outcome
                   /\ errors' = loaded
    /\ UNCHANGED <<inputs, bfs_vars, sort_vars, final_order, hist_vars>>

\* variant: the start package is not tested against the filter
BfsEnter_NoStartFilter ==
    /\ pc = "bfs_call"
    /\ queue' = <<package_name>>
    /\ enq_log' = <<package_name>>
    /\ all_edges' = <<>>
    /\ all_packages' = {package_name}
    /\ visited' = {package_name}
    /\ cycles_detected' = <<>>
    /\ pc' = "bfs_while"
    /\ UNCHANGED <<inputs, errors, outcome, repository_data, current_package,
                   direct_deps, dep_idx, sort_vars, final_order, deq_log,
                   edge_back>>

\* build_dependency_graph_bfs, entry: locals, the filter test of the start
\* package, the seeding of visited and all_packages
BfsEnter ==
    /\ pc = "bfs_call"
    /\ queue' = <<package_name>>
    /\ enq_log' = <<package_name>>
    /\ all_edges' = <<>>
    /\ IF IsFiltered(filter_substring, package_name)
       THEN /\ all_packages' = {}
            /\ visited' = {}
            /\ cycles_detected' = <<StartFilteredMsg(package_name)>>
            /\ pc' = "bfs_ret"
       ELSE /\ all_packages' = {package_name}
            /\ visited' = {package_name}
            /\ cycles_detected' = <<>>
            /\ pc' = "bfs_while"
    /\ UNCHANGED <<inputs, errors, outcome, repository_data, current_package,
                   direct_deps, dep_idx, sort_vars, final_order, deq_log,
                   edge_back>>

\* while queue: current_package = queue.popleft(); direct_deps = ...get(...)
BfsDequeue ==
    /\ pc = "bfs_while"
    /\ queue # <<>>
    /\ current_package' = Head(queue)
    /\ queue' = Tail(queue)
    /\ deq_log' = Append(deq_log, Head(queue))
    /\ direct_deps' = Get(repository_data, Head(queue))
    /\ dep_idx' = 1
    /\ pc' = IF Get(repository_data, Head(queue)) = <<>> THEN "bfs_while"
             ELSE "bfs_for"
    /\ UNCHANGED <<inputs, errors, outcome, repository_data, all_packages, all_edges,
                   visited, cycles_detected, sort_vars, final_order, enq_log,
                   edge_back>>

\* variant: the for loop is left after the first specifier handled
BfsAdvance_Break == dep_idx' = dep_idx /\ pc' = "bfs_while"

\* the for loop moves to the next specifier, or back to the while test
BfsAdvance ==
    IF dep_idx < Len(direct_deps)
    THEN dep_idx' = dep_idx + 1 /\ pc' = "bfs_for"
    ELSE dep_idx' = dep_idx /\ pc' = "bfs_while"

\* variant: a filtered dependency is kept out of the graph but still explored
BfsFilterDep_Enqueue ==
    /\ pc = "bfs_for"
    /\ LET dep == direct_deps[dep_idx]
       IN  /\ IsFiltered(filter_substring, dep)
           /\ visited' = visited \cup {dep}
           /\ queue' = IF dep \in visited THEN queue ELSE Append(queue, dep)
           /\ enq_log' = IF dep \in visited THEN enq_log ELSE Append(enq_log, dep)
    /\ BfsAdvance
    /\ UNCHANGED <<inputs, errors, outcome, repository_data, all_packages,
                   all_edges, cycles_detected, current_package, direct_deps,
                   sort_vars, final_order, deq_log, edge_back>>

\* for dep in direct_deps: the dependency is filtered
BfsFilterDep ==
    /\ pc = "bfs_for"
    /\ IsFiltered(filter_substring, direct_deps[dep_idx])
    /\ BfsAdvance
    /\ UNCHANGED <<inputs, errors, outcome, repository_data, all_packages, all_edges,
                   queue, visited, cycles_detected, current_package,
                   direct_deps, sort_vars, final_order, hist_vars>>

\* variant: an edge to a visited dependency is skipped before it is recorded
BfsBackEdge_NoEdge ==
    /\ pc = "bfs_for"
    /\ LET dep == direct_deps[dep_idx]
       IN  /\ ~IsFiltered(filter_substring, dep)
           /\ dep \in visited
           /\ cycles_detected' =
                 Append(cycles_detected, BackEdgeMsg(current_package, dep))
           /\ edge_back' = edge_back
    /\ BfsAdvance
    /\ UNCHANGED <<inputs, errors, outcome, repository_data, all_packages,
                   all_edges, queue, visited, current_package, direct_deps,
                   sort_vars, final_order, enq_log, deq_log>>

\* variant: a back edge already in the report is not reported again
BfsBackEdge_Dedup ==
    /\ pc = "bfs_for"
    /\ LET dep == direct_deps[dep_idx]
       IN  /\ ~IsFiltered(filter_substring, dep)
           /\ all_edges' = Append(all_edges, <<current_package, dep>>)
           /\ all_packages' = all_packages \cup {dep}
           /\ dep \in visited
           /\ cycles_detected' =
                 IF BackEdgeMsg(current_package, dep) \notin Range(cycles_detected)
                 THEN Append(cycles_detected, BackEdgeMsg(current_package, dep))
                 ELSE cycles_detected
           /\ edge_back' = Append(edge_back, TRUE)
    /\ BfsAdvance
    /\ UNCHANGED <<inputs, errors, outcome, repository_data, queue, visited,
                   current_package, direct_deps, sort_vars, final_order,
                   enq_log, deq_log>>

\* for dep in direct_deps: the dependency was visited before
BfsBackEdge ==
    /\ pc = "bfs_for"
    /\ LET dep == direct_deps[dep_idx]
       IN  /\ ~IsFiltered(filter_substring, dep)
           /\ all_edges' = Append(all_edges, <<current_package, dep>>)
           /\ all_packages' = all_packages \cup {dep}
           /\ dep \in visited
           /\ cycles_detected' =
                 IF dep \in all_packages'
                 THEN Append(cycles_detected, BackEdgeMsg(current_package, dep))
                 ELSE cycles_detected
           /\ edge_back' = Append(edge_back, TRUE)
    /\ BfsAdvance
    /\ UNCHANGED <<inputs, errors, outcome, repository_data, queue, visited,
                   current_package, direct_deps, sort_vars, final_order,
                   enq_log, deq_log>>

\* variant: a new dependency is enqueued without being added to the node set
BfsNewDep_NoNode ==
    /\ pc = "bfs_for"
    /\ LET dep == direct_deps[dep_idx]
       IN  /\ ~IsFiltered(filter_substring, dep)
           /\ all_edges' = Append(all_edges, <<current_package, dep>>)
           /\ dep \notin visited
           /\ visited' = visited \cup {dep}
           /\ queue' = Append(queue, dep)
           /\ enq_log' = Append(enq_log, dep)
           /\ edge_back' = Append(edge_back, FALSE)
    /\ BfsAdvance
    /\ UNCHANGED <<inputs, errors, outcome, repository_data, all_packages,
                   cycles_detected, current_package, direct_deps, sort_vars,
                   final_order, deq_log>>

\* variant: a new dependency is enqueued without being marked visited
BfsNewDep_NoVisited ==
    /\ pc = "bfs_for"
    /\ LET dep == direct_deps[dep_idx]
       IN  /\ ~IsFiltered(filter_substring, dep)
           /\ all_edges' = Append(all_edges, <<current_package, dep>>)
           /\ all_packages' = all_packages \cup {dep}
           /\ dep \notin visited
           /\ queue' = Append(queue, dep)
           /\ enq_log' = Append(enq_log, dep)
           /\ edge_back' = Append(edge_back, FALSE)
    /\ BfsAdvance
    /\ UNCHANGED <<inputs, errors, outcome, repository_data, visited, cycles_detected,
                   current_package, direct_deps, sort_vars, final_order,
                   deq_log>>

\* variant: a new dependency becomes a node only if the repository knows it
BfsNewDep_KnownOnly ==
    /\ pc = "bfs_for"
    /\ LET dep == direct_deps[dep_idx]
       IN  /\ ~IsFiltered(filter_substring, dep)
           /\ all_edges' = Append(all_edges, <<current_package, dep>>)
           /\ all_packages' = IF dep \in DOMAIN repository_data
                              THEN all_packages \cup {dep} ELSE all_packages
           /\ dep \notin visited
           /\ visited' = visited \cup {dep}
           /\ queue' = Append(queue, dep)
           /\ enq_log' = Append(enq_log, dep)
           /\ edge_back' = Append(edge_back, FALSE)
    /\ BfsAdvance
    /\ UNCHANGED <<inputs, errors, outcome, repository_data, cycles_detected,
                   current_package, direct_deps, sort_vars, final_order,
                   deq_log>>

\* for dep in direct_deps: the dependency is new
BfsNewDep ==
    /\ pc = "bfs_for"
    /\ LET dep == direct_deps[dep_idx]
       IN  /\ ~IsFiltered(filter_substring, dep)
           /\ all_edges' = Append(all_edges, <<current_package, dep>>)
           /\ all_packages' = all_packages \cup {dep}
           /\ dep \notin visited
           /\ visited' = visited \cup {dep}
           /\ queue' = Append(queue, dep)
           /\ enq_log' = Append(enq_log, dep)
           /\ edge_back' = Append(edge_back, FALSE)
    /\ BfsAdvance
    /\ UNCHANGED <<inputs, errors, outcome, repository_data, cycles_detected,
                   current_package, direct_deps, sort_vars, final_order,
                   deq_log>>

\* the queue is empty: return all_packages, all_edges, cycles_detected
BfsReturn ==
    /\ pc = "bfs_while"
    /\ queue = <<>>
    /\ pc' = "bfs_ret"
    /\ UNCHANGED <<inputs, errors, outcome, repository_data, bfs_vars, sort_vars,
                   final_order, hist_vars>>

\* run_visualizer after the traversal: an empty node set ends the run,
\* otherwise get_loading_order is called
RunCheckGraph ==
    /\ pc = "bfs_ret"
    /\ IF all_packages = {}
       THEN pc' = "done" /\ outcome' = "graph_empty"
       ELSE pc' = "sort_call" /\ outcome' = outcome
    /\ UNCHANGED <<inputs, errors, repository_data, bfs_vars, sort_vars, final_order,
                   hist_vars>>

\* variant: the edges counted at their source instead of their target
InDegree_BySource(nodes, edges) ==
    [n \in nodes |-> Cardinality({i \in 1..Len(edges) : edges[i][1] = n})]

\* in_degree after the loop over edges: one count per edge whose target is a node
InDegree(nodes, edges) ==
    [n \in nodes |-> Cardinality({i \in 1..Len(edges) : edges[i][2] = n})]

\* adj after the loop over edges: the targets of a node's edges, in edge order
Adjacency(nodes, edges) ==
    [n \in nodes |->
        LET out == SelectSeq(edges, LAMBDA e : e[1] = n)
        IN  [i \in 1..Len(out) |-> out[i][2]]]

\* the orders in which a set can be iterated
Orderings(S) ==
    {f \in [1..Cardinality(S) -> S] : \A i, j \in 1..Cardinality(S) : f[i] = f[j] => i = j}

\* variant: the requested package is never forced into the start nodes
StartNodes_NoForce(zero, pkg) == zero

\* variant: the requested package appended without the membership test
StartNodes_AlwaysForce(zero, pkg) == Append(zero, pkg)

\* start_nodes: the zero in-degree nodes as iterated, then the requested
\* package if it is not among them
StartNodes(zero, pkg) ==
    IF pkg \in Range(zero) THEN zero ELSE Append(zero, pkg)

\* variant: every node is taken as a start node, whatever its in-degree
SortInit_SeedAll ==
    /\ pc = "sort_call"
    /\ in_degree' = InDegree(all_packages, all_edges)
    /\ adj' = Adjacency(all_packages, all_edges)
    /\ \E zero \in Orderings(all_packages) :
          sort_queue' = StartNodes(zero, package_name)
    /\ loading_order' = <<>>
    /\ pc' = "sort_while"
    /\ UNCHANGED <<inputs, errors, outcome, repository_data, bfs_vars, u, adj_idx,
                   has_cycle, final_order, hist_vars>>

\* get_loading_order, entry: in_degree, adj, start_nodes, queue
SortInit ==
    /\ pc = "sort_call"
    /\ in_degree' = InDegree(all_packages, all_edges)
    /\ adj' = Adjacency(all_packages, all_edges)
    /\ \E zero \in Orderings({n \in all_packages : in_degree'[n] = 0}) :
          sort_queue' = StartNodes(zero, package_name)
    /\ loading_order' = <<>>
    /\ pc' = "sort_while"
    /\ UNCHANGED <<inputs, errors, outcome, repository_data, bfs_vars, u, adj_idx,
                   has_cycle, final_order, hist_vars>>

\* while queue: u = queue.popleft(); loading_order.append(u)
SortDequeue ==
    /\ pc = "sort_while"
    /\ sort_queue # <<>>
    /\ u' = Head(sort_queue)
    /\ sort_queue' = Tail(sort_queue)
    /\ loading_order' = Append(loading_order, Head(sort_queue))
    /\ adj_idx' = 1
    /\ pc' = IF Get(adj, Head(sort_queue)) = <<>> THEN "sort_while"
             ELSE "sort_for"
    /\ UNCHANGED <<inputs, errors, outcome, repository_data, bfs_vars, in_degree, adj,
                   has_cycle, final_order, hist_vars>>

\* variant: a neighbour is enqueued again when its counter passes below zero
SortNeighbor_EnqueueBelowZero ==
    /\ pc = "sort_for"
    /\ LET v == adj[u][adj_idx]
       IN  IF v \notin DOMAIN in_degree
           THEN /\ pc' = "done"
                /\ outcome' = "KeyError"
                /\ UNCHANGED <<in_degree, sort_queue, adj_idx>>
           ELSE /\ in_degree' = [in_degree EXCEPT ![v] = @ - 1]
                /\ sort_queue' = IF in_degree'[v] \in {0, -1}
                                 THEN Append(sort_queue, v)
                                 ELSE sort_queue
                /\ IF adj_idx < Len(adj[u])
                   THEN adj_idx' = adj_idx + 1 /\ pc' = "sort_for"
                   ELSE adj_idx' = adj_idx /\ pc' = "sort_while"
                /\ outcome' = outcome
    /\ UNCHANGED <<inputs, errors, repository_data, bfs_vars, adj, loading_order, u,
                   has_cycle, final_order, hist_vars>>

\* for v in adj.get(u, []): in_degree[v] -= 1; enqueue v at zero
SortNeighbor ==
    /\ pc = "sort_for"
    /\ LET v == adj[u][adj_idx]
       IN  IF v \notin DOMAIN in_degree
           THEN /\ pc' = "done"
                /\ outcome' = "KeyError"
                /\ UNCHANGED <<in_degree, sort_queue, adj_idx>>
           ELSE /\ in_degree' = [in_degree EXCEPT ![v] = @ - 1]
                /\ sort_queue' = IF in_degree'[v] = 0 THEN Append(sort_queue, v)
                                 ELSE sort_queue
                /\ IF adj_idx < Len(adj[u])
                   THEN adj_idx' = adj_idx + 1 /\ pc' = "sort_for"
                   ELSE adj_idx' = adj_idx /\ pc' = "sort_while"
                /\ outcome' = outcome
    /\ UNCHANGED <<inputs, errors, repository_data, bfs_vars, adj, loading_order, u,
                   has_cycle, final_order, hist_vars>>

\* has_cycle = len(loading_order) != len(nodes)
HasCycle(order, nodes) == Len(order) # Cardinality(nodes)

\* the queue is empty: return loading_order, has_cycle
SortReturn ==
    /\ pc = "sort_while"
    /\ sort_queue = <<>>
    /\ has_cycle' = HasCycle(loading_order, all_packages)
    /\ pc' = "sort_ret"
    /\ UNCHANGED <<inputs, errors, outcome, repository_data, bfs_vars, in_degree, adj,
                   sort_queue, loading_order, u, adj_idx, final_order,
                   hist_vars>>

\* final_order_with_package: the order without the requested package, then
\* the requested package if the order held it
FinalOrder(order, pkg) ==
    LET rest == SelectSeq(order, LAMBDA p : p # pkg)
    IN  IF rest = <<>> THEN <<>>
        ELSE IF pkg \in Range(order) THEN Append(rest, pkg)
        ELSE rest

\* run_visualizer after the sort: the printed loading order
RunReport ==
    /\ pc = "sort_ret"
    /\ final_order' = FinalOrder(loading_order, package_name)
    /\ outcome' = IF SelectSeq(loading_order, LAMBDA p : p # package_name) = <<>>
                     /\ package_name \in Range(loading_order)
                  THEN "no_dependencies"
                  ELSE "order_printed"
    /\ pc' = "done"
    /\ UNCHANGED <<inputs, errors, repository_data, bfs_vars, sort_vars, hist_vars>>

Next ==
    \/ RunVisualizer
    \/ RunCheckGraph
    \/ SortInit
    \/ SortDequeue
    \/ SortNeighbor
    \/ SortReturn
    \/ RunReport
    \/ BfsEnter
    \/ BfsDequeue
    \/ BfsFilterDep
    \/ BfsBackEdge
    \/ BfsNewDep
    \/ BfsReturn

Spec == Init /\ [][Next]_vars

\* get_loading_order called directly: any node set, edge list and start name
SortNames == {A, B, C}
SortEdgeLists == UNION {[1..n -> SortNames \X SortNames] : n \in 0..MaxSortEdges}

SortAnyInit ==
    /\ repository_mode = "direct"
    /\ local_repository = <<>>
    /\ file_status = "unused"
    /\ package_name \in {A, B}
    /\ filter_substring = <<>>
    /\ pc = "sort_call"
    /\ outcome = "none"
    /\ errors = <<>>
    /\ repository_data = <<>>
    /\ all_packages \in SUBSET SortNames
    /\ all_edges \in SortEdgeLists
    /\ queue = <<>>
    /\ visited = {}
    /\ cycles_detected = <<>>
    /\ current_package = <<>>
    /\ direct_deps = <<>>
    /\ dep_idx = 0
    /\ in_degree = <<>>
    /\ adj = <<>>
    /\ sort_queue = <<>>
    /\ loading_order = <<>>
    /\ u = <<>>
    /\ adj_idx = 0
    /\ has_cycle = FALSE
    /\ final_order = <<>>
    /\ enq_log = <<>>
    /\ deq_log = <<>>
    /\ edge_back = <<>>

SortNext ==
    \/ SortInit
    \/ SortDequeue
    \/ SortNeighbor
    \/ SortReturn

SortSpec == SortAnyInit /\ [][SortNext]_vars

\* the scheduling of a single-threaded synchronous run: a step that can be
\* taken is taken
FairSpec == Spec /\ WF_vars(Next)

-----------------------------------------------------------------------------
(* Notions the properties are stated with *)

Count(seq, x) == Cardinality({i \in 1..Len(seq) : seq[i] = x})

\* the packages reachable from the set S along dependency lists, leaving out
\* every dependency the filter rejects
RECURSIVE Closure(_, _, _)
Closure(repo, flt, S) ==
    LET more == {d \in UNION {Range(Get(repo, p)) : p \in S} : ~IsFiltered(flt, d)}
    IN  IF more \subseteq S THEN S ELSE Closure(repo, flt, S \cup more)

\* some package of the unfiltered closure of start depends on itself, directly
\* or through others
ClosureCyclic(repo, start) ==
    \E p \in Closure(repo, <<>>, {start}) :
        p \in Closure(repo, <<>>, Range(Get(repo, p)))

\* the traversal ran: the start package was known and passed the filter
Traversed ==
    /\ pc \notin {"run", "bfs_call"}
    /\ outcome \notin {"empty_repository", "unknown_package"}
    /\ ~IsFiltered(filter_substring, package_name)

\* get_loading_order has returned
Sorted ==
    \/ pc = "sort_ret"
    \/ pc = "done" /\ outcome \in {"no_dependencies", "order_printed"}

Example1 == [p \in {A, B, C} |-> CASE p = A -> <<B, C>> [] p = B -> <<>> [] OTHER -> <<B>>]
Example2 == [p \in {A, B} |-> IF p = A THEN <<B>> ELSE <<A>>]

\* C1: every recorded edge has a source that was dequeued from the work
\* queue before the edge was recorded, and a target that is in the node set.
C1_EdgeSourceDequeuedTargetNode ==
    \A i \in 1..Len(all_edges) :
        /\ all_edges[i][1] \in Range(deq_log)
        /\ all_edges[i][2] \in all_packages

\* edges of two different sources have been recorded
C1_Witness ==
    /\ pc = "bfs_for"
    /\ Len(all_edges) >= 2
    /\ all_edges[1][1] # all_edges[Len(all_edges)][1]

\* C2: the traversal, once entered, returns; no package is put on the queue
\* twice; on return every package reachable along unfiltered dependencies had
\* its dependency list looked up exactly once.
C2_TerminatesEachPackageOnce ==
    /\ (pc = "bfs_call") ~> (pc = "bfs_ret")
    /\ [](\A p \in Range(enq_log) : Count(enq_log, p) = 1)
    /\ [](pc = "bfs_ret" /\ Traversed =>
            \A p \in Closure(repository_data, filter_substring, {package_name}) :
                Count(deq_log, p) = 1)

\* the traversal returned from a cyclic repository with a duplicate specifier
C2_Witness ==
    /\ pc = "bfs_ret"
    /\ Traversed
    /\ ClosureCyclic(repository_data, package_name)
    /\ \E p \in DOMAIN repository_data :
          Len(repository_data[p]) = 2 /\ repository_data[p][1] = repository_data[p][2]
    /\ Len(deq_log) >= 2

\* C3: with a non-empty filter, no package whose name contains the filter is
\* in the node set, the visited set, the queue or an edge, and none is ever
\* dequeued (so its dependency list is never looked up).
C3_FilteredNeverInGraph ==
    (filter_substring # <<>> /\ Traversed) =>
        \A p \in all_packages \cup visited \cup Range(queue) \cup Range(deq_log)
                 \cup {all_edges[i][1] : i \in 1..Len(all_edges)}
                 \cup {all_edges[i][2] : i \in 1..Len(all_edges)} :
            ~IsSubstring(filter_substring, p)

\* a dependency that contains the filter without being equal to it was met,
\* and another dependency was admitted
C3_Witness ==
    /\ pc = "bfs_ret"
    /\ Traversed
    /\ filter_substring # <<>>
    /\ \E p \in Range(deq_log) : \E d \in Range(Get(repository_data, p)) :
          IsSubstring(filter_substring, d) /\ d # filter_substring
    /\ Cardinality(all_packages) >= 2

\* C4: when the closure of the start package has no directed cycle,
\* get_loading_order returns isCyclic = false and an order as long as the
\* node set.
C4_AcyclicCompleteOrder ==
    (Sorted /\ ~ClosureCyclic(repository_data, package_name)) =>
        /\ has_cycle = FALSE
        /\ Len(loading_order) = Cardinality(all_packages)

\* sorted: a diamond, or a duplicate specifier, or a single node
C4_Witness ==
    /\ Sorted
    /\ ~ClosureCyclic(repository_data, package_name)
    /\ \/ Len(all_edges) > Cardinality(all_packages)
       \/ \E i, j \in 1..Len(all_edges) : i # j /\ all_edges[i] = all_edges[j]
    /\ Cardinality(all_packages) >= 2

\* the built graph has a directed cycle
GraphCyclic(nodes, edges) ==
    LET succ(S) == {edges[i][2] : i \in {j \in 1..Len(edges) : edges[j][1] \in S}}
        reach[k \in 0..Cardinality(nodes)] ==
            [n \in nodes |-> IF k = 0 THEN succ({n})
                             ELSE reach[k - 1][n] \cup succ(reach[k - 1][n])]
    IN  \E n \in nodes : n \in reach[Cardinality(nodes)][n]

\* the first position of x in order, 0 when absent
Pos(order, x) ==
    IF x \in Range(order) THEN CHOOSE i \in 1..Len(order) :
                                  order[i] = x /\ \A j \in 1..(i - 1) : order[j] # x
    ELSE 0

C6_Example1DependenciesFirst ==
    (pc = "done" /\ repository_data = Example1 /\ package_name = A
        /\ filter_substring = <<>>) =>
        /\ final_order # <<>>
        /\ final_order[Len(final_order)] = A
        /\ Pos(final_order, B) >= 1
        /\ Pos(final_order, B) < Pos(final_order, C)
        /\ Pos(final_order, B) < Pos(final_order, A)

\* C7: in the returned loading order each package appears at most once, every
\* element is a node, and the order is never longer than the node set.
C7_OrderWithoutRepeats ==
    Sorted =>
        /\ \A p \in Range(loading_order) : Count(loading_order, p) = 1
        /\ Range(loading_order) \subseteq all_packages
        /\ Len(loading_order) <= Cardinality(all_packages)

\* C8: when the closure of the start package has a directed cycle,
\* get_loading_order returns isCyclic = true and an order strictly shorter
\* than the node set.
C8_CyclicPartialOrder ==
    (Sorted /\ ClosureCyclic(repository_data, package_name)
        /\ filter_substring = <<>>) =>
        /\ has_cycle = TRUE
        /\ Len(loading_order) < Cardinality(all_packages)

OpChars == {"<", ">", "=", "~"}

RECURSIVE Strip(_)
Strip(s) ==
    IF s = <<>> THEN s
    ELSE IF Head(s) = " " THEN Strip(Tail(s))
    ELSE IF s[Len(s)] = " " THEN Strip(SubSeq(s, 1, Len(s) - 1))
    ELSE s

\* the part of a specifier before its first comparison character, stripped
Normalize(spec) ==
    LET ops == {i \in 1..Len(spec) : spec[i] \in OpChars}
        cut == IF ops = {} THEN Len(spec)
               ELSE (CHOOSE i \in ops : \A j \in ops : i <= j) - 1
    IN  Strip(SubSeq(spec, 1, cut))

\* C9: every edge target and every node other than the start package is the
\* normalized name of a specifier of the edge's source: the part before the
\* first of < > = ~, stripped.
C9_SpecifiersNormalized ==
    Traversed =>
        /\ \A i \in 1..Len(all_edges) :
              all_edges[i][2] \in
                  {Normalize(d) : d \in Range(Get(repository_data, all_edges[i][1]))}
        /\ \A p \in all_packages : p = Normalize(p)

\* the back-edge report the edge list calls for: one description per edge
\* whose target was visited at discovery, in edge order
RECURSIVE BackReport(_, _)
BackReport(edges, back) ==
    IF edges = <<>> THEN <<>>
    ELSE LET n == Len(edges)
             front == BackReport(SubSeq(edges, 1, n - 1), SubSeq(back, 1, n - 1))
         IN  IF back[n] THEN Append(front, BackEdgeMsg(edges[n][1], edges[n][2]))
             ELSE front

\* C10: the report holds one description 'current -> dep' for each recorded
\* edge whose target was already visited at discovery and for no other edge,
\* in discovery order and without deduplication; such a target is not put on
\* the queue again.
C10_BackEdgeReport ==
    Traversed =>
        /\ Len(edge_back) = Len(all_edges)
        /\ cycles_detected = BackReport(all_edges, edge_back)
        /\ \A i \in 1..Len(all_edges) :
              edge_back[i] <=> \/ all_edges[i][2] = package_name
                               \/ \E j \in 1..(i - 1) : all_edges[j][2] = all_edges[i][2]
        /\ \A i \in 1..Len(all_edges) :
              edge_back[i] => Count(enq_log, all_edges[i][2]) = 1
        /\ (pc = "bfs_ret" /\ repository_data = Example2 /\ package_name = A
                /\ filter_substring = <<>>) =>
              cycles_detected = <<BackEdgeMsg(B, A)>>

\* the same back edge was reported twice
C10_Witness ==
    /\ pc = "bfs_ret"
    /\ Traversed
    /\ Len(cycles_detected) >= 2
    /\ cycles_detected[1] = cycles_detected[2]
    /\ \E i \in 1..Len(edge_back) : ~edge_back[i]

\* the traversal has returned from a start package that passed the filter
Returned == Traversed /\ pc \notin {"bfs_while", "bfs_for"}

\* the run of Example 1: {A: [B, C], B: [], C: [B]} from A without filter
Example1Run ==
    /\ repository_data = Example1
    /\ package_name = A
    /\ filter_substring = <<>>

\* C11 as stated: for Example 1 the traversal returns nodes {A, B, C}, edges
\* [(A,B), (A,C), (C,B)] in that order, and an empty back-edge report.
C11_Example1NoBackEdges ==
    (Returned /\ Example1Run) =>
        /\ all_packages = {A, B, C}
        /\ all_edges = <<<<A, B>>, <<A, C>>, <<C, B>>>>
        /\ cycles_detected = <<>>

\* C11 as amended: for Example 1 the traversal returns nodes {A, B, C}, edges
\* [(A,B), (A,C), (C,B)] in that order, and a back-edge report with the
\* single entry C -> B (the convergent edge of the diamond).
C11_Example1Graph ==
    (Returned /\ Example1Run) =>
        /\ all_packages = {A, B, C}
        /\ all_edges = <<<<A, B>>, <<A, C>>, <<C, B>>>>
        /\ cycles_detected = <<BackEdgeMsg(C, B)>>

\* the traversal of Example 1 has returned
C11_Witness == pc = "bfs_ret" /\ Example1Run /\ Len(deq_log) = 3

\* C12: a start package that contains the non-empty filter gives an empty
\* node set, an empty edge list and a report of exactly one entry, and nothing
\* was dequeued or looked up.
C12_FilteredStartEmptyGraph ==
    (pc \notin {"run", "bfs_call"}
        /\ outcome \notin {"empty_repository", "unknown_package"}
        /\ filter_substring # <<>>
        /\ IsSubstring(filter_substring, package_name)) =>
        /\ all_packages = {}
        /\ all_edges = <<>>
        /\ Len(cycles_detected) = 1
        /\ cycles_detected[1] = StartFilteredMsg(package_name)
        /\ deq_log = <<>>
        /\ visited = {}
        /\ current_package = <<>> /\ direct_deps = <<>>

\* a filtered start package that has dependencies returned the empty graph
C12_Witness ==
    /\ pc = "bfs_ret"
    /\ filter_substring # <<>>
    /\ IsSubstring(filter_substring, package_name)
    /\ Len(repository_data[package_name]) >= 1
    /\ Len(cycles_detected) = 1

\* C13: a package that is not a key of the repository and is reached as a
\* dependency is a node without outgoing edges; it is dequeued like any other
\* package and the traversal returns without an error for it.
C13_UnknownDependencyIsLeaf ==
    Traversed =>
        /\ \A p \in all_packages \ DOMAIN repository_data :
              \A i \in 1..Len(all_edges) : all_edges[i][1] # p
        /\ \A p \in Range(deq_log) \ DOMAIN repository_data :
              p \in all_packages
        /\ Returned =>
              /\ \A p \in Closure(repository_data, filter_substring, {package_name})
                          \ DOMAIN repository_data :
                    p \in all_packages /\ Count(deq_log, p) = 1
              /\ errors = <<>>
              /\ outcome # "KeyError"

\* the traversal returned with a node that is no key of the repository
C13_Witness ==
    /\ pc = "bfs_ret"
    /\ Traversed
    /\ \E p \in all_packages : p \notin DOMAIN repository_data
    /\ \E p \in all_packages : p # package_name /\ p \in DOMAIN repository_data

\* C14: when the start package is no key of the repository, or the local
\* repository loaded empty, an error is reported and the run ends without
\* build_dependency_graph_bfs or get_loading_order having been entered.
C14_UnknownOrEmptyReported ==
    (pc # "run" /\ package_name \notin DOMAIN repository_data) =>
        /\ pc = "done"
        /\ errors # <<>>
        /\ enq_log = <<>> /\ queue = <<>> /\ all_packages = {}
        /\ in_degree = <<>> /\ loading_order = <<>>

\* C15: get_loading_order raises for no node set, edge list and start name:
\* an edge whose target is no node is left out of the in-degree table and
\* skipped during elimination.
C15_SortNeverRaises ==
    /\ outcome # "KeyError"
    /\ pc \in {"sort_while", "sort_for", "sort_ret"} =>
          DOMAIN in_degree = all_packages

\* the elimination of one dequeued node: every target of its edges loses one
\* in-degree and joins the queue when it reaches zero
RECURSIVE Relax(_, _, _)
Relax(deg, q, targets) ==
    IF targets = <<>> THEN [deg |-> deg, q |-> q]
    ELSE LET v == Head(targets)
             d2 == [deg EXCEPT ![v] = @ - 1]
         IN  Relax(d2, IF d2[v] = 0 THEN Append(q, v) ELSE q, Tail(targets))

\* the order the elimination produces from a seed queue
RECURSIVE KahnLoop(_, _, _, _)
KahnLoop(deg, adjm, q, order) ==
    IF q = <<>> THEN order
    ELSE LET r == Relax(deg, Tail(q), Get(adjm, Head(q)))
         IN  KahnLoop(r.deg, adjm, r.q, Append(order, Head(q)))

\* the nodes without incoming edge
ZeroNodes(nodes, edges) == {n \in nodes : InDegree(nodes, edges)[n] = 0}

\* C16: the loading order and isCyclic returned for a built graph are the
\* ones every iteration order of the node set leads to.
C16_OrderIndependentOfIteration ==
    Sorted =>
        \A zero \in Orderings(ZeroNodes(all_packages, all_edges)) :
            LET order == KahnLoop(InDegree(all_packages, all_edges),
                                  Adjacency(all_packages, all_edges),
                                  StartNodes(zero, package_name), <<>>)
            IN  /\ order = loading_order
                /\ HasCycle(order, all_packages) = has_cycle

\* a graph of three nodes was sorted completely
C16_Witness ==
    /\ pc = "sort_ret"
    /\ Cardinality(all_packages) >= 3
    /\ Len(loading_order) >= 3
    /\ has_cycle = FALSE

\* every name a run can meet
AllNames ==
    {package_name} \cup DOMAIN repository_data
        \cup UNION {Range(repository_data[k]) : k \in DOMAIN repository_data}

\* p is a dependency of a package the traversal rejected by the filter
BehindFiltered(p) ==
    \E c \in Range(deq_log) : \E q \in Range(Get(repository_data, c)) :
        /\ IsFiltered(filter_substring, q)
        /\ p \in Range(Get(repository_data, q))

\* C17 as stated: a package behind a filtered edge is absent from the node
\* set, also when a second path without filtered package reaches it.
C17_BehindFilterAbsent ==
    Returned =>
        \A p \in AllNames \ {package_name} :
            BehindFiltered(p) => p \notin all_packages

\* C17 as amended: a package behind a filtered edge is absent from the node
\* set exactly when every path from the start to it passes through a filtered
\* package; when a path without filtered package reaches it, it is a node.
C17_BehindFilterByOtherPath ==
    Returned =>
        \A p \in AllNames :
            BehindFiltered(p) =>
                (p \in all_packages <=>
                    p \in Closure(repository_data, filter_substring, {package_name}))

\* a package behind a filtered edge became a node by a second path
C17_Witness ==
    /\ pc = "bfs_ret"
    /\ Traversed
    /\ \E p \in all_packages : p # package_name /\ BehindFiltered(p)

\* C18: the start package is in the initial queue of get_loading_order
\* exactly once, and the returned order is never empty and holds the start
\* package, also on cyclic graphs.
C18_StartSeededOnce ==
    /\ (pc = "sort_while" /\ loading_order = <<>>) =>
          Count(sort_queue, package_name) = 1
    /\ Sorted => loading_order # <<>> /\ package_name \in Range(loading_order)

\* sorted a graph in which the start package has an incoming edge
C18_Witness ==
    /\ pc = "sort_ret"
    /\ Cardinality(all_packages) >= 2
    /\ InDegree(all_packages, all_edges)[package_name] > 0

\* C19: on return the node set is the set of packages reachable from the
\* start along dependencies none of which contains the filter, and it equals
\* the visited set.
C19_NodesAreFilteredClosure ==
    Returned =>
        /\ all_packages = Closure(repository_data, filter_substring, {package_name})
        /\ all_packages = visited

\* returned with a filtered dependency left out, a key of the repository
\* unreachable, and more than the start package in the node set
C19_Witness ==
    /\ pc = "bfs_ret"
    /\ Traversed
    /\ \E c \in all_packages : \E q \in Range(Get(repository_data, c)) :
          IsFiltered(filter_substring, q)
    /\ \E k \in DOMAIN repository_data :
          k \notin all_packages /\ ~IsFiltered(filter_substring, k)
    /\ Cardinality(all_packages) >= 2

\* C20: during get_loading_order every in-degree counter stays non-negative,
\* and a node other than the forced start has counter 0 when it is dequeued.
C20_InDegreeNonNegative ==
    (pc \in {"sort_while", "sort_for", "sort_ret"} \/ Sorted) =>
        /\ \A n \in DOMAIN in_degree : in_degree[n] >= 0
        /\ (loading_order # <<>> /\ adj_idx = 1
               /\ (pc = "sort_for" \/ (pc = "sort_while" /\ Get(adj, u) = <<>>))) =>
              (in_degree[u] = 0 \/ u = package_name)

\* the position of the run is inside get_loading_order or at its return
InSort == pc \in {"sort_while", "sort_for", "sort_ret"}

\* how often get_loading_order has put n on its queue so far: every element
\* taken from the queue is appended to loading_order, so the enqueued elements
\* are those of loading_order followed by those still queued
Enqueued(n) == Count(loading_order \o sort_queue, n)

\* how often the seeding put n on the queue: the start nodes are the nodes
\* without incoming edge and the requested package
SeedCount(n) ==
    IF n \in ZeroNodes(all_packages, all_edges) \cup {package_name} THEN 1 ELSE 0

\* C21: get_loading_order, called on a graph the traversal built, returns; a
\* node is on the seed queue at most once and is enqueued at most once more,
\* by its in-degree reaching zero; the loading order never has more than
\* |nodes| + 1 elements.
C21_SortTerminatesBounded ==
    /\ (pc = "sort_call") ~> (pc = "sort_ret")
    /\ [](pc = "sort_while" /\ loading_order = <<>> =>
             \A n \in Range(sort_queue) : Count(sort_queue, n) = SeedCount(n))
    /\ [](InSort =>
             /\ Range(loading_order \o sort_queue) \subseteq all_packages
             /\ \A n \in all_packages : Enqueued(n) <= SeedCount(n) + 1
             /\ Len(loading_order) <= Cardinality(all_packages) + 1)

\* a cyclic graph of several nodes was sorted and the order is one element
\* longer than the node set: the start package was enqueued by the seeding
\* and again by its in-degree reaching zero
C21_Witness ==
    /\ pc = "sort_ret"
    /\ Cardinality(all_packages) >= 2
    /\ Len(loading_order) = Cardinality(all_packages) + 1
    /\ Enqueued(package_name) = 2

====
